---- MODULE Spec2Model ----
(***************************************************************************)
(* Model of Tonuino/soundfiles.hpp: the two conversions from a one-byte    *)
(* number to say to a sound file index (getAdvertNumber, getMp3Number) and *)
(* the two enumerations of fixed system sounds (Advertisements, Mp3s).     *)
(*                                                                         *)
(* The header has no state of its own.  The state of the model is what a   *)
(* caller holds: the first and the second sound it has selected, each      *)
(* recorded with the operation used, its argument, the folder the          *)
(* operation belongs to and the index it produced.                         *)
(***************************************************************************)
EXTENDS Integers, Sequences, FiniteSets

VARIABLES first, second

vars == <<first, second>>

----------------------------------------------------------------------------
(* Integer types of the signatures                                         *)

\* largest value of uint8_t, the parameter type of both conversions
UINT8_MAX == 255

\* number of values of uint16_t, the result type of both conversions
UINT16_RANGE == 65536

Uint8 == 0..UINT8_MAX

Uint16 == 0..(UINT16_RANGE - 1)

\* integral conversion to uint16_t (value modulo 2^16), applied to the
\* operand of the return statement
ToUint16(v) == v % UINT16_RANGE

----------------------------------------------------------------------------
(* The conversions                                                         *)

\* off by one: index = number + 1
getAdvertNumber_plusOne(numberToSay) == ToUint16(numberToSay + 1)

\* parameter taken as a signed byte, sign-extended on return
getAdvertNumber_signed(numberToSay) ==
    ToUint16(IF numberToSay > 127 THEN numberToSay - 256 ELSE numberToSay)

\* numbers stored behind the fixed sounds: index = number + 5
getAdvertNumber_shifted(numberToSay) == ToUint16(numberToSay + 5)

\* uint16_t getAdvertNumber(uint8_t numberToSay){ return numberToSay; }
getAdvertNumber(numberToSay) == ToUint16(numberToSay)

\* off by one: index = number - 1
getMp3Number_minusOne(numberToSay) == ToUint16(numberToSay - 1)

\* uint16_t getMp3Number(uint8_t numberToSay){ return numberToSay; }
getMp3Number(numberToSay) == ToUint16(numberToSay)

----------------------------------------------------------------------------
(* The enumerations                                                        *)

\* an enumerator with an initializer, and one without
Enumerator(nm, v) == [name |-> nm, init |-> <<v>>]

EnumeratorAuto(nm) == [name |-> nm, init |-> <<>>]

\* no increment: an enumerator without initializer repeats the previous one
NextEnumerator_same(prev) == prev

\* value of an enumerator without initializer: the previous one plus one
NextEnumerator(prev) == prev + 1

\* value of the i-th enumerator of a declaration
RECURSIVE EnumValueAt(_, _)
EnumValueAt(decl, i) ==
    IF Len(decl[i].init) > 0 THEN decl[i].init[1]
    ELSE IF i = 1 THEN 0
    ELSE NextEnumerator(EnumValueAt(decl, i - 1))

EnumNames(decl) == {decl[i].name : i \in DOMAIN decl}

\* the binding of names to values that a declaration makes
EnumTable(decl) ==
    [nm \in EnumNames(decl) |->
        EnumValueAt(decl, CHOOSE i \in DOMAIN decl : decl[i].name = nm)]

\* NOTIFIER_DONG given the value of NOTIFIER_DING
AdvertisementsDecl_duplicate ==
    << Enumerator("NOTIFIER_DING", 260),
       Enumerator("NOTIFIER_DONG", 260),
       Enumerator("FREEZE_INTRO", 300),
       EnumeratorAuto("FREEZE_STOPP"),
       EnumeratorAuto("FREEZE_DONT_MOVE"),
       EnumeratorAuto("FREEZE_CONITNUE") >>

\* FREEZE_INTRO moved off 300
AdvertisementsDecl_moved ==
    << Enumerator("NOTIFIER_DING", 260),
       Enumerator("NOTIFIER_DONG", 261),
       Enumerator("FREEZE_INTRO", 310),
       EnumeratorAuto("FREEZE_STOPP"),
       EnumeratorAuto("FREEZE_DONT_MOVE"),
       EnumeratorAuto("FREEZE_CONITNUE") >>

\* enum Advertisements { ... }
AdvertisementsDecl ==
    << Enumerator("NOTIFIER_DING", 260),
       Enumerator("NOTIFIER_DONG", 261),
       Enumerator("FREEZE_INTRO", 300),
       EnumeratorAuto("FREEZE_STOPP"),
       EnumeratorAuto("FREEZE_DONT_MOVE"),
       EnumeratorAuto("FREEZE_CONITNUE") >>

\* initializer of OK dropped
Mp3sDecl_auto ==
    << Enumerator("OH_A_NEW_CARD", 300),
       EnumeratorAuto("OK"),
       Enumerator("THAT_DIDNT_WORK", 401) >>

\* enum Mp3s { ... }
Mp3sDecl ==
    << Enumerator("OH_A_NEW_CARD", 300),
       Enumerator("OK", 400),
       Enumerator("THAT_DIDNT_WORK", 401) >>

Advertisements == EnumTable(AdvertisementsDecl)

Mp3s == EnumTable(Mp3sDecl)

\* the folder each half of the header is about
AdvertFolder == "advert"

Mp3Folder == "mp3"

----------------------------------------------------------------------------
(* The caller                                                              *)

NoCall == [op |-> "none"]

AdvertNumberCall(n) ==
    [op |-> "getAdvertNumber", numberToSay |-> n,
     folder |-> AdvertFolder, index |-> getAdvertNumber(n)]

Mp3NumberCall(n) ==
    [op |-> "getMp3Number", numberToSay |-> n,
     folder |-> Mp3Folder, index |-> getMp3Number(n)]

AdvertisementsUse(nm) ==
    [op |-> "Advertisements", name |-> nm,
     folder |-> AdvertFolder, index |-> Advertisements[nm]]

Mp3sUse(nm) ==
    [op |-> "Mp3s", name |-> nm,
     folder |-> Mp3Folder, index |-> Mp3s[nm]]

\* the caller keeps the sound it selected: the first one, then the second
KeepFirst(c) == IF first = NoCall THEN c ELSE first

KeepSecond(c) == IF first = NoCall THEN second ELSE c

Init ==
    /\ first = NoCall
    /\ second = NoCall

CallGetAdvertNumber(n) ==
    /\ second = NoCall
    /\ first' = KeepFirst(AdvertNumberCall(n))
    /\ second' = KeepSecond(AdvertNumberCall(n))

CallGetMp3Number(n) ==
    /\ second = NoCall
    /\ first' = KeepFirst(Mp3NumberCall(n))
    /\ second' = KeepSecond(Mp3NumberCall(n))

UseAdvertisements(nm) ==
    /\ second = NoCall
    /\ first' = KeepFirst(AdvertisementsUse(nm))
    /\ second' = KeepSecond(AdvertisementsUse(nm))

UseMp3s(nm) ==
    /\ second = NoCall
    /\ first' = KeepFirst(Mp3sUse(nm))
    /\ second' = KeepSecond(Mp3sUse(nm))

Next ==
    \/ \E n \in Uint8 : CallGetAdvertNumber(n)
    \/ \E n \in Uint8 : CallGetMp3Number(n)
    \/ \E nm \in DOMAIN Advertisements : UseAdvertisements(nm)
    \/ \E nm \in DOMAIN Mp3s : UseMp3s(nm)

Spec == Init /\ [][Next]_vars

----------------------------------------------------------------------------
(* Vocabulary of the properties                                            *)

Calls == {first, second} \ {NoCall}

IsConversion(c) == c.op \in {"getAdvertNumber", "getMp3Number"}

IsConstant(c) == c.op \in {"Advertisements", "Mp3s"}

----------------------------------------------------------------------------
(* Properties                                                              *)

\* C1: for every number n in 1..255, getAdvertNumber returns exactly n.
C1_AdvertIdentity ==
    \A c \in Calls :
        (c.op = "getAdvertNumber" /\ c.numberToSay \in 1..UINT8_MAX)
            => c.index = c.numberToSay

C1_Witness ==
    /\ first.op = "getAdvertNumber" /\ first.numberToSay = 1
    /\ second.op = "getAdvertNumber" /\ second.numberToSay = UINT8_MAX
    /\ second.index = UINT8_MAX

\* C2: for every number n in 1..255, getMp3Number returns exactly n, and so
\* returns what getAdvertNumber returns for the same n.
C2_Mp3Identity ==
    /\ \A c \in Calls :
        (c.op = "getMp3Number" /\ c.numberToSay \in 1..UINT8_MAX)
            => c.index = c.numberToSay
    /\ \A c, d \in Calls :
        (/\ c.op = "getAdvertNumber"
         /\ d.op = "getMp3Number"
         /\ c.numberToSay \in 1..UINT8_MAX
         /\ d.numberToSay = c.numberToSay)
            => d.index = c.index

C2_Witness ==
    /\ first.op = "getAdvertNumber" /\ first.numberToSay = 200
    /\ second.op = "getMp3Number" /\ second.numberToSay = 200
    /\ second.index = 200 /\ first.index = second.index

\* the table of section 4.2 for Advertisements
C3_Table ==
    [nm \in {"NOTIFIER_DING", "NOTIFIER_DONG", "FREEZE_INTRO", "FREEZE_STOPP",
             "FREEZE_DONT_MOVE", "FREEZE_CONTINUE"} |->
        CASE nm = "NOTIFIER_DING" -> 260
          [] nm = "NOTIFIER_DONG" -> 261
          [] nm = "FREEZE_INTRO" -> 300
          [] nm = "FREEZE_STOPP" -> 301
          [] nm = "FREEZE_DONT_MOVE" -> 302
          [] nm = "FREEZE_CONTINUE" -> 303]

\* C3: Advertisements binds exactly the six names NOTIFIER_DING,
\* NOTIFIER_DONG, FREEZE_INTRO, FREEZE_STOPP, FREEZE_DONT_MOVE and
\* FREEZE_CONTINUE, to 260, 261, 300, 301, 302 and 303: every enumerator a
\* caller uses is one of the six and has the index given for it.
C3_AdvertisementsTable ==
    \A c \in Calls :
        c.op = "Advertisements"
            => (c.name \in DOMAIN C3_Table /\ c.index = C3_Table[c.name])

\* the table of section 4.2 for Mp3s
C4_Table ==
    [nm \in {"OH_A_NEW_CARD", "OK", "THAT_DIDNT_WORK"} |->
        CASE nm = "OH_A_NEW_CARD" -> 300
          [] nm = "OK" -> 400
          [] nm = "THAT_DIDNT_WORK" -> 401]

\* C4: Mp3s binds exactly the three names OH_A_NEW_CARD, OK and
\* THAT_DIDNT_WORK, to 300, 400 and 401.
C4_Mp3sTable ==
    /\ DOMAIN Mp3s = DOMAIN C4_Table
    /\ Len(Mp3sDecl) = Cardinality(DOMAIN C4_Table)
    /\ \A c \in Calls :
        c.op = "Mp3s"
            => (c.name \in DOMAIN C4_Table /\ c.index = C4_Table[c.name])

C4_Witness ==
    /\ first.op = "Mp3s" /\ first.name = "OK" /\ first.index = 400
    /\ second.op = "Mp3s" /\ second.name = "THAT_DIDNT_WORK"
    /\ second.index = 401

\* C5: within each enumeration, two different names have different indices;
\* Advertisements has six names and Mp3s has three.
C5_DistinctWithinEnum ==
    /\ Cardinality(DOMAIN Advertisements) = 6
    /\ Len(AdvertisementsDecl) = 6
    /\ Cardinality(DOMAIN Mp3s) = 3
    /\ Len(Mp3sDecl) = 3
    /\ \A c, d \in Calls :
        (IsConstant(c) /\ IsConstant(d) /\ c.op = d.op /\ c.name # d.name)
            => c.index # d.index

C5_Witness ==
    /\ first.op = "Advertisements" /\ first.name = "NOTIFIER_DING"
    /\ second.op = "Advertisements" /\ second.name = "NOTIFIER_DONG"
    /\ first.index # second.index

\* C6: a sound is the pair (folder, index).  FREEZE_INTRO of Advertisements
\* and OH_A_NEW_CARD of Mp3s both have index 300 and are different sounds;
\* any two different names among the nine are different (folder, index)
\* pairs.
C6_FolderNamespaces ==
    /\ \A c, d \in Calls :
        (/\ c.op = "Advertisements" /\ c.name = "FREEZE_INTRO"
         /\ d.op = "Mp3s" /\ d.name = "OH_A_NEW_CARD")
            => /\ c.index = 300
               /\ d.index = 300
               /\ <<c.folder, c.index>> # <<d.folder, d.index>>
    /\ \A c, d \in Calls :
        (IsConstant(c) /\ IsConstant(d) /\ <<c.op, c.name>> # <<d.op, d.name>>)
            => <<c.folder, c.index>> # <<d.folder, d.index>>
    /\ Cardinality(DOMAIN Advertisements) + Cardinality(DOMAIN Mp3s) = 9

C6_Witness ==
    /\ first.op = "Advertisements" /\ first.name = "FREEZE_INTRO"
    /\ second.op = "Mp3s" /\ second.name = "OH_A_NEW_CARD"
    /\ first.index = second.index
    /\ first.folder # second.folder

\* C7: every constant of Advertisements and of Mp3s is greater than 255, so
\* no result of getAdvertNumber equals a constant of Advertisements and no
\* result of getMp3Number equals a constant of Mp3s.
C7_RangesDisjoint ==
    /\ \A c \in Calls : IsConstant(c) => c.index > UINT8_MAX
    /\ \A c, d \in Calls :
        (IsConversion(c) /\ IsConstant(d) /\ c.folder = d.folder)
            => c.index # d.index

C7_Witness ==
    /\ first.op = "getAdvertNumber" /\ first.numberToSay = UINT8_MAX
    /\ second.op = "Advertisements" /\ second.name = "NOTIFIER_DING"
    /\ first.index < second.index

\* C9: the four freeze-dance enumerators are consecutive in declaration
\* order: FREEZE_STOPP = FREEZE_INTRO + 1, FREEZE_DONT_MOVE = FREEZE_INTRO + 2,
\* FREEZE_CONITNUE = FREEZE_INTRO + 3, and no other enumerator of
\* Advertisements lies in FREEZE_INTRO .. FREEZE_INTRO + 3.
C9_FreezeRun ==
    \A c, d \in Calls :
        (/\ c.op = "Advertisements" /\ c.name = "FREEZE_INTRO"
         /\ d.op = "Advertisements")
            => /\ d.name = "FREEZE_STOPP" => d.index = c.index + 1
               /\ d.name = "FREEZE_DONT_MOVE" => d.index = c.index + 2
               /\ d.name = "FREEZE_CONITNUE" => d.index = c.index + 3
               /\ d.name \in {"NOTIFIER_DING", "NOTIFIER_DONG"}
                    => d.index \notin c.index..(c.index + 3)

C9_Witness ==
    /\ first.op = "Advertisements" /\ first.name = "FREEZE_INTRO"
    /\ second.op = "Advertisements" /\ second.name = "FREEZE_CONITNUE"
    /\ second.index = first.index + 3

\* C10: both conversions are defined on every value 0..255 of the parameter
\* type; the result is in 0..255 and is the argument itself (the widening to
\* 16 bits loses nothing and does not wrap), 0 gives 0, and different
\* arguments give different results.
C10_TotalLossless ==
    /\ first = NoCall =>
        \A n \in Uint8 :
            /\ getAdvertNumber(n) \in Uint16
            /\ getMp3Number(n) \in Uint16
            /\ ENABLED CallGetAdvertNumber(n)
            /\ ENABLED CallGetMp3Number(n)
    /\ \A c \in Calls :
        IsConversion(c)
            => /\ c.index \in Uint8
               /\ c.index = c.numberToSay
               /\ c.numberToSay = 0 => c.index = 0
    /\ \A c, d \in Calls :
        (IsConversion(c) /\ c.op = d.op /\ c.numberToSay # d.numberToSay)
            => c.index # d.index

C10_Witness ==
    /\ first.op = "getMp3Number" /\ first.numberToSay = 0 /\ first.index = 0
    /\ second.op = "getMp3Number" /\ second.numberToSay = UINT8_MAX
    /\ second.index = UINT8_MAX

====
